---- MODULE Spec2Model ----
(***************************************************************************)
(* A model of the serial control plane of gensio/sergensio_termios.c: the  *)
(* deferred-operation queue (termios_set_get, termios_process,             *)
(* sterm_deferred_op), the termios / modem-control accessors, the          *)
(* modem-state poller (termios_timeout, sterm_modemstate) and the          *)
(* open / drain-on-close protocol (sterm_sub_open,                         *)
(* sterm_check_close_drain).                                               *)
(*                                                                         *)
(* Flag words (c_cflag, the TIOCM word, the modem-state word) are sets of  *)
(* bit positions (bit n has the value 2^n): x | y is union, x & y           *)
(* intersection, x & ~y difference, x ^ y the symmetric difference.  Two   *)
(* flags with the same numeric value are the same set, as they are the     *)
(* same bits in C.                                                         *)
(***************************************************************************)
EXTENDS Integers, Sequences, FiniteSets, TLC

\* ------------------------------------------------------------------ bounds
\* Calls of termios_set_get in one behaviour of the queue specifications.
MaxSubmits == 3
\* Calls of sterm_sub_open in one behaviour.
MaxOpens == 2
\* Calls of termios_set_get in one behaviour of the specification of the set
\* and get semantics, where every request and every failure is tried.
MaxSets == 2
\* Drain polls counted after one close request.
MaxPolls == 201
\* Calls of termios_set_get in one behaviour of the specification of the
\* termios parameters.
MaxParms == 3

\* --------------------------------------------------------- error numbers
EIO == 5
EAGAIN == 11
ENOMEM == 12
EBUSY == 16
EINVAL == 22
ENOTSUP == 95
\* The value of a return slot while the call has not returned.
NoRet == 0 - 1

\* ------------------------------------------------- sergensio enumerations
SERGENSIO_PARITY_NONE == 1
SERGENSIO_PARITY_ODD == 2
SERGENSIO_PARITY_EVEN == 3
SERGENSIO_PARITY_MARK == 4
SERGENSIO_PARITY_SPACE == 5
SERGENSIO_FLOWCONTROL_NONE == 1
SERGENSIO_FLOWCONTROL_XON_XOFF == 2
SERGENSIO_FLOWCONTROL_RTS_CTS == 3
SERGENSIO_BREAK_ON == 1
SERGENSIO_BREAK_OFF == 2
SERGENSIO_DTR_ON == 1
SERGENSIO_DTR_OFF == 2
SERGENSIO_RTS_ON == 1
SERGENSIO_RTS_OFF == 2

\* enum termio_op
TERMIO_OP_TERMIO == "TERMIO"
TERMIO_OP_MCTL == "MCTL"
TERMIO_OP_BRK == "BRK"

\* ---------------------------- termios bits (Linux values, as bit positions)
CS5 == {}
CS6 == {4}
CS7 == {5}
CS8 == {4, 5}
CSIZE == {4, 5}
CSTOPB == {6}
CREAD == {7}
PARENB == {8}
PARODD == {9}
HUPCL == {10}
CLOCAL == {11}
CMSPAR == {30}
CRTSCTS == {31}
IXON == {10}
IXOFF == {12}
IGNBRK == {0}
B9600 == {0, 2, 3}

\* Modem-control word bits (TIOCMGET / TIOCMSET).
TIOCM_DTR == {1}
TIOCM_RTS == {2}
TIOCM_CTS == {5}
TIOCM_CD == {6}
TIOCM_RI == {7}
TIOCM_DSR == {8}
\* The bits TIOCMSET can drive; the other four are inputs of the port.
MctlOutputs == TIOCM_DTR \cup TIOCM_RTS
MctlInputs == TIOCM_CTS \cup TIOCM_CD \cup TIOCM_RI \cup TIOCM_DSR

\* a & b /= 0 in C
Has(word, flag) == (word \cap flag) # {}

\* ------------------------------------------------------------- accessors
\* Every accessor is int getset(struct termios *termio, int *mctl, int *ival):
\* here a record of the error returned and of what the three pointers hold
\* afterwards.  termio is the record [c_cflag, c_iflag].
Acc(err, termio, mctl, ival) ==
    [err |-> err, termio |-> termio, mctl |-> mctl, ival |-> ival]

SetCflag(termio, clear, set) ==
    [termio EXCEPT !.c_cflag = (@ \ clear) \cup set]

termios_get_set_datasize(termio, mctl, ival) ==
    IF ival # 0
    THEN IF ival \in {5, 6, 7, 8}
         THEN LET val == CASE ival = 5 -> CS5 [] ival = 6 -> CS6
                           [] ival = 7 -> CS7 [] ival = 8 -> CS8
              IN Acc(0, SetCflag(termio, CSIZE, val), mctl, ival)
         ELSE Acc(EINVAL, termio, mctl, ival)
    ELSE LET sz == termio.c_cflag \cap CSIZE
         IN Acc(0, termio, mctl,
                CASE sz = CS5 -> 5 [] sz = CS6 -> 6 [] sz = CS7 -> 7 [] sz = CS8 -> 8)

termios_get_set_parity(termio, mctl, ival) ==
    IF ival # 0
    THEN IF ival \in {SERGENSIO_PARITY_NONE, SERGENSIO_PARITY_ODD,
                      SERGENSIO_PARITY_EVEN, SERGENSIO_PARITY_MARK,
                      SERGENSIO_PARITY_SPACE}
         THEN LET val == CASE ival = SERGENSIO_PARITY_NONE -> {}
                           [] ival = SERGENSIO_PARITY_ODD -> PARENB \cup PARODD
                           [] ival = SERGENSIO_PARITY_EVEN -> PARENB
                           [] ival = SERGENSIO_PARITY_MARK ->
                                  PARENB \cup PARODD \cup CMSPAR
                           [] ival = SERGENSIO_PARITY_SPACE -> PARENB \cup CMSPAR
              IN Acc(0, SetCflag(termio, PARENB \cup PARODD \cup CMSPAR, val),
                     mctl, ival)
         ELSE Acc(EINVAL, termio, mctl, ival)
    ELSE Acc(0, termio, mctl,
             IF ~Has(termio.c_cflag, PARENB) THEN SERGENSIO_PARITY_NONE
             ELSE IF Has(termio.c_cflag, PARODD)
                  THEN IF Has(termio.c_cflag, CMSPAR)
                       THEN SERGENSIO_PARITY_MARK ELSE SERGENSIO_PARITY_ODD
                  ELSE IF Has(termio.c_cflag, CMSPAR)
                       THEN SERGENSIO_PARITY_SPACE ELSE SERGENSIO_PARITY_EVEN)

termios_get_set_stopbits(termio, mctl, ival) ==
    IF ival # 0
    THEN IF ival = 1 THEN Acc(0, SetCflag(termio, CSTOPB, {}), mctl, ival)
         ELSE IF ival = 2 THEN Acc(0, SetCflag(termio, {}, CSTOPB), mctl, ival)
         ELSE Acc(EINVAL, termio, mctl, ival)
    ELSE Acc(0, termio, mctl, IF Has(termio.c_cflag, CSTOPB) THEN 2 ELSE 1)

termios_get_set_flowcontrol(termio, mctl, ival) ==
    IF ival # 0
    THEN IF ival \in {SERGENSIO_FLOWCONTROL_NONE, SERGENSIO_FLOWCONTROL_XON_XOFF,
                      SERGENSIO_FLOWCONTROL_RTS_CTS}
         THEN LET val == CASE ival = SERGENSIO_FLOWCONTROL_NONE -> {}
                           [] ival = SERGENSIO_FLOWCONTROL_XON_XOFF ->
                                  IXON \cup IXOFF
                           [] ival = SERGENSIO_FLOWCONTROL_RTS_CTS -> CRTSCTS
              IN Acc(0, SetCflag(termio, IXON \cup IXOFF \cup CRTSCTS, val),
                     mctl, ival)
         ELSE Acc(EINVAL, termio, mctl, ival)
    ELSE Acc(0, termio, mctl,
             IF Has(termio.c_cflag, CRTSCTS) THEN SERGENSIO_FLOWCONTROL_RTS_CTS
             ELSE IF Has(termio.c_cflag, IXON \cup IXOFF)
                  THEN SERGENSIO_FLOWCONTROL_XON_XOFF
                  ELSE SERGENSIO_FLOWCONTROL_NONE)

termios_get_set_iflowcontrol(termio, mctl, ival) ==
    IF ival # 0
    THEN IF ival \in {SERGENSIO_FLOWCONTROL_NONE, SERGENSIO_FLOWCONTROL_XON_XOFF}
         THEN LET val == IF ival = SERGENSIO_FLOWCONTROL_NONE THEN {} ELSE IXOFF
              IN Acc(0, SetCflag(termio, IXOFF, val), mctl, ival)
         ELSE Acc(EINVAL, termio, mctl, ival)
    ELSE Acc(0, termio, mctl,
             IF Has(termio.c_cflag, IXOFF) THEN SERGENSIO_FLOWCONTROL_XON_XOFF
             ELSE SERGENSIO_FLOWCONTROL_NONE)

termios_get_set_dtr(termio, mctl, ival) ==
    IF ival # 0
    THEN IF ival = SERGENSIO_DTR_ON
         THEN Acc(0, termio, mctl \cup TIOCM_DTR, ival)
         ELSE IF ival = SERGENSIO_DTR_OFF
              THEN Acc(0, termio, mctl \cap TIOCM_DTR, ival)
              ELSE Acc(EINVAL, termio, mctl, ival)
    ELSE Acc(0, termio, mctl,
             IF Has(mctl, TIOCM_DTR) THEN SERGENSIO_DTR_ON ELSE SERGENSIO_DTR_OFF)

termios_get_set_rts(termio, mctl, ival) ==
    IF ival # 0
    THEN IF ival = SERGENSIO_RTS_ON
         THEN Acc(0, termio, mctl \cup TIOCM_RTS, ival)
         ELSE IF ival = SERGENSIO_RTS_OFF
              THEN Acc(0, termio, mctl \cap TIOCM_RTS, ival)
              ELSE Acc(EINVAL, termio, mctl, ival)
    ELSE Acc(0, termio, mctl,
             IF Has(mctl, TIOCM_RTS) THEN SERGENSIO_RTS_ON ELSE SERGENSIO_RTS_OFF)

\* The call through the function pointer qe->getset / getset.
getset(fn, termio, mctl, ival) ==
    CASE fn = "datasize" -> termios_get_set_datasize(termio, mctl, ival)
      [] fn = "parity" -> termios_get_set_parity(termio, mctl, ival)
      [] fn = "stopbits" -> termios_get_set_stopbits(termio, mctl, ival)
      [] fn = "flowcontrol" -> termios_get_set_flowcontrol(termio, mctl, ival)
      [] fn = "iflowcontrol" -> termios_get_set_iflowcontrol(termio, mctl, ival)
      [] fn = "dtr" -> termios_get_set_dtr(termio, mctl, ival)
      [] fn = "rts" -> termios_get_set_rts(termio, mctl, ival)

\* ------------------------------------------------------------------ state
\* struct sterm_data
VARIABLES lock, open, write_only, fd, close_timeouts_left, timer_stopped,
          deferred_op_pending, termio_q, break_set, last_modemstate,
          modemstate_mask, handling_modemstate, sent_first_modemstate
\* The serial device and the UUCP lock file, as the OS holds them.
VARIABLES os_termios, os_mctl, os_break, signals, os_fd_open, outq, uucp_held
\* The event framework: the deferred runner, the poller timer, the fd layer
\* that drives sub_open and check_close.
VARIABLES rpc, rcur, timer, stop_pending, ll_state
\* The threads inside sterm_modemstate and inside termios_timeout.
VARIABLES spc, tpc, tms, tforce
\* History: the last call returned, completions invoked, calls counted, misuse
\* observed, the levels sampled and the mask in force at the last poll.
VARIABLES last, log, nsubmits, naccepted, nopens, crashed, uucp_misuse,
          stale_close, poll_levels, poll_mask
\* History of a close: the drain polls made since the close request, and
\* those of them made with the queue empty and the timer reported stopped.
VARIABLES npolls, ndrain

epvars == <<lock, open, write_only, fd, close_timeouts_left, timer_stopped,
            deferred_op_pending, termio_q, break_set>>
pollvars == <<last_modemstate, modemstate_mask, handling_modemstate,
              sent_first_modemstate>>
osvars == <<os_termios, os_mctl, os_break, signals, os_fd_open, outq, uucp_held>>
fwvars == <<rpc, rcur, timer, stop_pending, ll_state>>
thvars == <<spc, tpc, tms, tforce>>
histvars == <<last, log, nsubmits, naccepted, nopens, crashed, uucp_misuse,
              stale_close, poll_levels, poll_mask>>
drainvars == <<npolls, ndrain>>
vars == <<epvars, pollvars, osvars, fwvars, thvars, histvars, drainvars>>

\* Threads that call into the endpoint from outside.
Users == {"u1", "u2"}
\* A completion may call termios_set_get again, on the runner's thread.
Callers == Users \cup {"runner"}
\* Threads on which the framework may run termios_timeout.
Tickers == {"k1", "k2"}

\* What a caller passes to termios_set_get: the operation, the accessor, the
\* value (0 asks for a get) and whether a completion is given.
Req(op, fn, val, done) == [op |-> op, fn |-> fn, val |-> val, done |-> done]
NoReq == Req("none", "none", 0, FALSE)
Requests ==
    { Req(TERMIO_OP_TERMIO, "stopbits", v, TRUE) : v \in {0, 2, 3} }
    \cup { Req(TERMIO_OP_MCTL, "dtr", v, TRUE) :
             v \in {0, SERGENSIO_DTR_ON, SERGENSIO_DTR_OFF, 3} }
    \cup { Req(TERMIO_OP_MCTL, "rts", v, TRUE) : v \in {0, SERGENSIO_RTS_OFF} }
    \cup { Req(TERMIO_OP_BRK, "brk", v, TRUE) :
             v \in {0, SERGENSIO_BREAK_ON, SERGENSIO_BREAK_OFF, 42} }
    \cup { Req(TERMIO_OP_TERMIO, "stopbits", 2, FALSE),
           Req(TERMIO_OP_MCTL, "dtr", SERGENSIO_DTR_OFF, FALSE),
           Req(TERMIO_OP_BRK, "brk", SERGENSIO_BREAK_ON, FALSE) }

\* History: the call of termios_set_get that returned last: its caller, its
\* arguments, the value returned, the step of its set part that failed and
\* whether it allocated a queue entry.
Returned(t, req, ret, fail, alloc) ==
    [t |-> t, req |-> req, ret |-> ret, fail |-> fail, alloc |-> alloc]

\* struct termio_op_q; id numbers the accepted entries in the order of their
\* acceptance (history).
NoEntry == [id |-> 0, op |-> "none", fn |-> "none"]

\* What termios_gensio_alloc leaves in default_termios (no parms given).
default_termios == [c_cflag |-> B9600 \cup CS8 \cup CREAD, c_iflag |-> IGNBRK]

\* ioctl(fd, TIOCMGET): the driven outputs and the sampled input lines.
TIOCMGET == os_mctl \cup signals

Init ==
    /\ lock = "none"
    /\ open = FALSE
    /\ write_only \in BOOLEAN
    /\ fd = 0 - 1
    /\ close_timeouts_left = 0
    /\ timer_stopped = FALSE
    /\ deferred_op_pending = FALSE
    /\ termio_q = <<>>
    /\ break_set = FALSE
    /\ last_modemstate = {}
    /\ modemstate_mask = {}
    /\ handling_modemstate = FALSE
    /\ sent_first_modemstate = FALSE
    /\ os_termios = [c_cflag |-> {}, c_iflag |-> {}]
    /\ os_mctl = MctlOutputs
    /\ os_break = FALSE
    /\ signals = {}
    /\ os_fd_open = FALSE
    /\ outq = 0
    /\ uucp_held = FALSE
    /\ rpc = "idle"
    /\ rcur = [entry |-> NoEntry, err |-> 0, val |-> 0]
    /\ timer = "idle"
    /\ stop_pending = FALSE
    /\ ll_state = "closed"
    /\ spc = "idle"
    /\ tpc = [k \in Tickers |-> "idle"]
    /\ tms = [k \in Tickers |-> {}]
    /\ tforce = [k \in Tickers |-> FALSE]
    /\ last = Returned("none", NoReq, NoRet, "none", FALSE)
    /\ log = <<>>
    /\ nsubmits = 0
    /\ naccepted = 0
    /\ nopens = 0
    /\ crashed = FALSE
    /\ uucp_misuse = FALSE
    /\ stale_close = FALSE
    /\ poll_levels = {}
    /\ poll_mask = {}
    /\ npolls = 0
    /\ ndrain = 0

\* ------------------------------------------------------- termios_set_get
\* The result of the synchronous set part (val != 0) of termios_set_get on an
\* open endpoint: the error, what the device holds afterwards, break_set, which
\* step failed (history) and whether the call dereferenced a null qe.  ok1 and
\* ok2 say whether the first and the second OS call of the part succeed.
SetRes(err, termios, mctl, brk, bset, fail, crash) ==
    [err |-> err, termios |-> termios, mctl |-> mctl, brk |-> brk,
     bset |-> bset, fail |-> fail, crash |-> crash]

SetFailed(err, fail) ==
    SetRes(err, os_termios, os_mctl, os_break, break_set, fail, FALSE)

\* Lines 199: tcsetattr(fd, TCSANOW, &termio), its result not looked at.
WriteBackTermios(termio, ok) ==
    IF ok
    THEN SetRes(0, termio, os_mctl, os_break, break_set, "none", FALSE)
    ELSE SetFailed(0, "tcsetattr")

\* Fault: the latch takes the opposite of what was asked.
BreakValueInverted(val) == val # SERGENSIO_BREAK_ON

\* Lines 218-223: bval, what a BREAK set of ON or OFF asserts.
BreakValue(val) == val = SERGENSIO_BREAK_ON

\* Lines 189-237.
SetPart(req, qe, ok1, ok2) ==
    IF req.val = 0
    THEN SetFailed(0, "none")
    ELSE IF req.op = TERMIO_OP_TERMIO
    THEN IF ~ok1
         THEN SetFailed(EIO, "tcgetattr")
         ELSE LET r == getset(req.fn, os_termios, {}, req.val)
              IN IF r.err # 0
                 THEN SetFailed(r.err, "accessor")
                 ELSE WriteBackTermios(r.termio, ok2)
    ELSE IF req.op = TERMIO_OP_MCTL
    THEN IF ~ok1
         THEN SetFailed(EIO, "TIOCMGET")
         ELSE IF ~qe
              THEN SetRes(0, os_termios, os_mctl, os_break, break_set,
                          "none", TRUE)
              ELSE LET r == getset(req.fn, os_termios, TIOCMGET, req.val)
                   IN IF r.err # 0
                      THEN SetFailed(r.err, "accessor")
                      ELSE IF ~ok2
                           THEN SetFailed(EIO, "TIOCMSET")
                           ELSE SetRes(0, os_termios, r.mctl \cap MctlOutputs,
                                       os_break, break_set, "none", FALSE)
    ELSE IF req.op = TERMIO_OP_BRK
    THEN IF req.val \notin {SERGENSIO_BREAK_ON, SERGENSIO_BREAK_OFF}
         THEN SetFailed(EINVAL, "brkval")
         ELSE IF ~ok1
              THEN SetFailed(EIO, "brkioctl")
              ELSE SetRes(0, os_termios, os_mctl, BreakValue(req.val),
                          BreakValue(req.val), "none", FALSE)
    ELSE SetFailed(EINVAL, "op")

\* Fault: the set part runs without the check that the endpoint is open.
LockedPartUnchecked(req, qe, ok1, ok2) == SetPart(req, qe, ok1, ok2)

\* Lines 184-187: under the lock, a call on an endpoint that is not open fails
\* EBUSY before the set part.
LockedPart(req, qe, ok1, ok2) ==
    IF ~open THEN SetFailed(EBUSY, "none") ELSE SetPart(req, qe, ok1, ok2)

\* Fault: qe is linked in at the head of termio_q.
EnqueueAtHead(q, qe) == <<qe>> \o q

\* Lines 239-250: qe goes to the tail of termio_q.
Enqueue(q, qe) == Append(q, qe)

\* Fault: the runner is never scheduled.
StartDeferredOpNever(pending) == FALSE

\* Fault: deferred_op_pending is not looked at.
StartDeferredOpAlways(pending) == TRUE

\* Lines 112-119, sterm_start_deferred_op: whether the runner gets scheduled.
StartDeferredOp(pending) == ~pending

\* Lines 159-256: termios_set_get(sio, op, val, getset, done, cb_data) called
\* on thread t (the runner's thread is inside a completion).  alloc_ok says
\* whether the allocation of qe succeeds.  The allocation precedes the lock and
\* touches nothing shared, so the call is one step, taken where it holds the
\* lock.
termios_set_get(t, req, alloc_ok, ok1, ok2) ==
    /\ ~crashed
    /\ UNCHANGED drainvars
    /\ lock = "none"
    /\ t = "runner" => rpc = "incb"
    /\ nsubmits' = nsubmits + 1
    /\ IF write_only
       THEN /\ last' = Returned(t, req, ENOTSUP, "none", FALSE)
            /\ UNCHANGED <<deferred_op_pending, termio_q, break_set,
                           os_termios, os_mctl, os_break, rpc, naccepted,
                           crashed>>
       ELSE IF req.done /\ ~alloc_ok
       THEN /\ last' = Returned(t, req, ENOMEM, "none", TRUE)
            /\ UNCHANGED <<deferred_op_pending, termio_q, break_set,
                           os_termios, os_mctl, os_break, rpc, naccepted,
                           crashed>>
       ELSE LET r == LockedPart(req, req.done, ok1, ok2)
                enq == req.done /\ r.err = 0
                qe == [id |-> naccepted + 1, op |-> req.op, fn |-> req.fn]
            IN IF r.crash
               THEN /\ crashed' = TRUE
                    /\ UNCHANGED <<deferred_op_pending, termio_q, break_set,
                                   os_termios, os_mctl, os_break, rpc,
                                   naccepted, last>>
               ELSE /\ os_termios' = r.termios
                    /\ os_mctl' = r.mctl
                    /\ os_break' = r.brk
                    /\ break_set' = r.bset
                    /\ termio_q' = IF enq THEN Enqueue(termio_q, qe)
                                   ELSE termio_q
                    /\ naccepted' = IF enq THEN naccepted + 1 ELSE naccepted
                    /\ IF enq /\ termio_q = <<>>
                          /\ StartDeferredOp(deferred_op_pending)
                       THEN deferred_op_pending' = TRUE /\ rpc' = "scheduled"
                       ELSE UNCHANGED <<deferred_op_pending, rpc>>
                    /\ last' = Returned(t, req, r.err, r.fail, req.done)
                    /\ UNCHANGED crashed
    /\ UNCHANGED <<lock, open, write_only, fd, close_timeouts_left,
                   timer_stopped, signals, os_fd_open, outq, uucp_held, rcur,
                   timer, stop_pending, ll_state>>
    /\ UNCHANGED <<pollvars, thvars, log, nopens, uucp_misuse, stale_close,
                   poll_levels, poll_mask>>

\* A call of termios_set_get whose OS calls and allocation succeed, by any
\* caller, with a completion: what the queue and the runner are exercised with.
QueueRequests ==
    { Req(TERMIO_OP_TERMIO, "stopbits", 0, TRUE),
      Req(TERMIO_OP_MCTL, "dtr", 0, TRUE),
      Req(TERMIO_OP_BRK, "brk", SERGENSIO_BREAK_ON, TRUE) }

SubmitQueued ==
    /\ nsubmits < MaxSubmits
    /\ \E t \in Callers, req \in QueueRequests :
         termios_set_get(t, req, TRUE, TRUE, TRUE)

\* A call of termios_set_get with any of the requests, where the allocation
\* or one OS call may fail; the call returns at its first failure, so it meets
\* at most one.
Faults == {"none", "alloc", "os1", "os2"}

SubmitAny ==
    /\ nsubmits < MaxSets
    /\ \E t \in {"u1"}, req \in Requests, fault \in Faults :
         termios_set_get(t, req, fault # "alloc", fault # "os1", fault # "os2")

\* The termios parameters: every value of data size, parity, stop bits, flow
\* control and input flow control is set, without a completion, and each of
\* the five is read with one.
ParmValues ==
    [datasize |-> {5, 6, 7, 8},
     parity |-> {SERGENSIO_PARITY_NONE, SERGENSIO_PARITY_ODD,
                 SERGENSIO_PARITY_EVEN, SERGENSIO_PARITY_MARK,
                 SERGENSIO_PARITY_SPACE},
     stopbits |-> {1, 2},
     flowcontrol |-> {SERGENSIO_FLOWCONTROL_NONE,
                      SERGENSIO_FLOWCONTROL_XON_XOFF,
                      SERGENSIO_FLOWCONTROL_RTS_CTS},
     iflowcontrol |-> {SERGENSIO_FLOWCONTROL_NONE,
                       SERGENSIO_FLOWCONTROL_XON_XOFF}]

ParmRequests ==
    { Req(TERMIO_OP_TERMIO, fn, 0, TRUE) : fn \in DOMAIN ParmValues }
    \cup UNION { { Req(TERMIO_OP_TERMIO, fn, v, FALSE) : v \in ParmValues[fn] } :
                 fn \in DOMAIN ParmValues }

\* A call of termios_set_get with one of them by a user; tcsetattr may fail.
SubmitParm ==
    /\ nsubmits < MaxParms
    /\ \E req \in ParmRequests, ok2 \in BOOLEAN :
         termios_set_get("u1", req, TRUE, TRUE, ok2)

\* ------------------------------------- sterm_deferred_op, termios_process
\* Fault: the completion is given no read-back of the device.
ProcessEntryNoRead(qe, ok) == [err |-> 0, val |-> 0]

\* Lines 130-149: the error and the value termios_process computes for qe.
ProcessEntry(qe, ok) ==
    IF qe.op = TERMIO_OP_TERMIO
    THEN IF ~ok THEN [err |-> EIO, val |-> 0]
         ELSE LET r == getset(qe.fn, os_termios, {}, 0)
              IN [err |-> r.err, val |-> r.ival]
    ELSE IF qe.op = TERMIO_OP_MCTL
    THEN IF ~ok THEN [err |-> EIO, val |-> 0]
         ELSE LET r == getset(qe.fn, os_termios, TIOCMGET, 0)
              IN [err |-> r.err, val |-> r.ival]
    ELSE [err |-> 0,
          val |-> IF break_set THEN SERGENSIO_BREAK_ON ELSE SERGENSIO_BREAK_OFF]

\* Line 100: the runner the framework scheduled takes the endpoint lock.
RunnerStart ==
    /\ ~crashed
    /\ UNCHANGED drainvars
    /\ rpc = "scheduled"
    /\ lock = "none"
    /\ lock' = "runner"
    /\ rpc' = "process"
    /\ UNCHANGED <<open, write_only, fd, close_timeouts_left, timer_stopped,
                   deferred_op_pending, termio_q, break_set>>
    /\ UNCHANGED <<pollvars, osvars, rcur, timer, stop_pending, ll_state,
                   thvars, histvars>>

\* Fault: the lock is kept across qe->done.
KeepLockForCallback == "runner"

\* Line 151: the owner of the lock once termios_process has called
\* sterm_unlock, before qe->done.
UnlockForCallback == "none"

\* Lines 124-151 and 104-109: with the lock held, either take the head of
\* termio_q, read the device for it and release the lock for its completion,
\* or find the queue empty, clear deferred_op_pending and return.
RunnerProcess ==
    /\ ~crashed
    /\ UNCHANGED drainvars
    /\ rpc = "process"
    /\ lock = "runner"
    /\ IF termio_q # <<>>
       THEN /\ \E ok \in BOOLEAN :
                 LET qe == Head(termio_q)
                     r == ProcessEntry(qe, ok /\ os_fd_open)
                 IN rcur' = [entry |-> qe, err |-> r.err, val |-> r.val]
            /\ termio_q' = Tail(termio_q)
            /\ lock' = UnlockForCallback
            /\ rpc' = "call"
            /\ UNCHANGED deferred_op_pending
       ELSE /\ deferred_op_pending' = FALSE
            /\ lock' = "none"
            /\ rpc' = "idle"
            /\ UNCHANGED <<termio_q, rcur>>
    /\ UNCHANGED <<open, write_only, fd, close_timeouts_left, timer_stopped,
                   break_set>>
    /\ UNCHANGED <<pollvars, osvars, timer, stop_pending, ll_state, thvars,
                   histvars>>

\* Line 152: qe->done(sio, err, val, cb_data) is entered.
RunnerInvoke ==
    /\ ~crashed
    /\ UNCHANGED drainvars
    /\ rpc = "call"
    /\ rpc' = "incb"
    /\ log' = Append(log, rcur.entry.id)
    /\ UNCHANGED <<epvars, pollvars, osvars, rcur, timer, stop_pending,
                   ll_state, thvars>>
    /\ UNCHANGED <<last, nsubmits, naccepted, nopens, crashed, uucp_misuse,
                   stale_close, poll_levels, poll_mask>>

\* Lines 152-154: the completion returns, qe is freed and the lock taken again.
CallbackReturn ==
    /\ ~crashed
    /\ UNCHANGED drainvars
    /\ rpc = "incb"
    /\ lock = "none"
    /\ lock' = "runner"
    /\ rpc' = "process"
    /\ rcur' = [entry |-> NoEntry, err |-> 0, val |-> 0]
    /\ UNCHANGED <<open, write_only, fd, close_timeouts_left, timer_stopped,
                   deferred_op_pending, termio_q, break_set>>
    /\ UNCHANGED <<pollvars, osvars, timer, stop_pending, ll_state, thvars,
                   histvars>>

\* ------------------------------------------- sterm_sub_open, check_close
\* Fault: every failed open calls uucp_rm_lock.
OpenFailureAlwaysReleases(lockres) == TRUE

\* Lines 816-824 and 859-861: a failed open reaches out_uucp, and so calls
\* uucp_rm_lock, only when uucp_mk_lock had succeeded.
OpenFailureReleases(lockres) == lockres = "ok"

\* The modem-state mask sterm_sub_open subscribes with (line 853): 255.
ByteBits == 0..7

\* Lines 806-867.  The fd layer calls sub_open on a closed endpoint.  lockres
\* is what uucp_mk_lock finds, open_ok and tcset_ok whether open() and
\* tcsetattr() succeed, brk_ok whether the unchecked TIOCCBRK does.
sterm_sub_open(lockres, open_ok, tcset_ok, brk_ok) ==
    /\ ~crashed
    /\ UNCHANGED drainvars
    /\ ll_state = "closed"
    /\ nopens' = nopens + 1
    /\ LET locked == lockres = "ok"
             opened == locked /\ open_ok
             ok == opened /\ (write_only \/ tcset_ok)
             rm == ~ok /\ OpenFailureReleases(lockres)
             held1 == locked \/ uucp_held
         IN /\ uucp_held' = IF rm THEN FALSE ELSE held1
            /\ uucp_misuse' = (uucp_misuse \/ (locked /\ uucp_held)
                               \/ (rm /\ ~held1))
            /\ timer_stopped' = IF locked THEN FALSE ELSE timer_stopped
            /\ IF ok
               THEN /\ fd' = 3
                    /\ os_fd_open' = TRUE
                    /\ os_termios' = IF write_only THEN os_termios
                                     ELSE default_termios
                    /\ os_break' = IF brk_ok THEN FALSE ELSE os_break
                    /\ open' = TRUE
                    /\ sent_first_modemstate' = FALSE
                    /\ IF write_only
                       THEN UNCHANGED <<modemstate_mask, timer>>
                       ELSE modemstate_mask' = ByteBits /\ timer' = "armed"
                    /\ ll_state' = "open"
                    /\ UNCHANGED stale_close
               ELSE \* out: close(sdata->fd) when it is not -1
                    /\ fd' = 0 - 1
                    /\ os_fd_open' = FALSE
                    /\ stale_close' = (stale_close \/
                                       (~locked /\ fd # 0 - 1 /\ ~os_fd_open))
                    /\ UNCHANGED <<open, sent_first_modemstate, modemstate_mask,
                                   os_termios, os_break, timer, ll_state>>
    /\ UNCHANGED <<lock, write_only, close_timeouts_left, deferred_op_pending,
                   termio_q, break_set, last_modemstate, handling_modemstate,
                   os_mctl, signals, outq, rpc, rcur, stop_pending, thvars,
                   last, log, nsubmits, naccepted, crashed,
                   poll_levels, poll_mask>>

\* uucp_rm_lock(devname) removes the lock file; removing it while this endpoint
\* does not hold it is recorded.
RmLockMisuse == ~uucp_held

\* An open attempt with any outcome of its OS calls.
OpenAttempt ==
    /\ nopens < MaxOpens
    /\ \E lockres \in {"ok", "busy", "err"}, open_ok \in BOOLEAN,
          tcset_ok \in BOOLEAN, brk_ok \in BOOLEAN :
         sterm_sub_open(lockres, open_ok, tcset_ok, brk_ok)

\* An open attempt that succeeds.
OpenSucceeds ==
    /\ nopens < MaxOpens
    /\ \E brk_ok \in BOOLEAN : sterm_sub_open("ok", TRUE, TRUE, brk_ok)

\* Lines 740-746: the framework reports that the timer it was asked to stop
\* has stopped.
sterm_timer_stopped ==
    /\ ~crashed
    /\ UNCHANGED drainvars
    /\ stop_pending
    /\ stop_pending' = FALSE
    /\ timer_stopped' = TRUE
    /\ UNCHANGED <<lock, open, write_only, fd, close_timeouts_left,
                   deferred_op_pending, termio_q, break_set>>
    /\ UNCHANGED <<pollvars, osvars, rpc, rcur, timer, ll_state, thvars,
                   histvars>>

\* Lines 755-764, 791-793: sterm_check_close_drain(GENSIO_LL_CLOSE_STATE_START),
\* the close request.  stop_timer_with_done fails when the timer is not
\* running; when it is, the timer is cancelled and sterm_timer_stopped follows.
CloseStart ==
    /\ ~crashed
    /\ ll_state = "open"
    /\ lock = "none"
    /\ open' = FALSE
    /\ close_timeouts_left' = 200
    /\ npolls' = 0
    /\ ndrain' = 0
    /\ IF timer = "armed"
       THEN timer' = "idle" /\ stop_pending' = TRUE /\ UNCHANGED timer_stopped
       ELSE timer_stopped' = TRUE /\ UNCHANGED <<timer, stop_pending>>
    /\ ll_state' = "closing"
    /\ UNCHANGED <<lock, write_only, fd, deferred_op_pending, termio_q,
                   break_set>>
    /\ UNCHANGED <<pollvars, osvars, rpc, rcur, thvars, histvars>>

\* Fault: the retries are not capped.
DrainDoneUncapped(q, stopped, rv_ok, count, left) ==
    /\ q = <<>>
    /\ stopped
    /\ (~rv_ok \/ count = 0)

\* Lines 766-782: whether sterm_check_close_drain(DONE) reports the close
\* complete (returns 0) rather than EAGAIN.
DrainDone(q, stopped, rv_ok, count, left) ==
    /\ q = <<>>
    /\ stopped
    /\ (~rv_ok \/ count = 0 \/ left - 1 = 0)

\* Lines 755, 766-793: sterm_check_close_drain(GENSIO_LL_CLOSE_STATE_DONE), the
\* drain poll.  When it returns 0 the fd layer closes the descriptor and the
\* endpoint is closed; when it returns EAGAIN the fd layer polls again.  The
\* polls are counted where counted says so.
DrainCheck(counted) ==
    /\ ~crashed
    /\ counted => npolls < MaxPolls
    /\ npolls' = IF counted THEN npolls + 1 ELSE npolls
    /\ ll_state = "closing"
    /\ lock = "none"
    /\ open' = FALSE
    /\ \E rv_ok \in BOOLEAN :
         LET tiocoutq_ok == rv_ok /\ os_fd_open
             reached == termio_q = <<>> /\ timer_stopped
             done == DrainDone(termio_q, timer_stopped, tiocoutq_ok, outq,
                               close_timeouts_left)
         IN /\ close_timeouts_left' =
                  IF reached /\ tiocoutq_ok /\ outq # 0
                  THEN close_timeouts_left - 1 ELSE close_timeouts_left
            /\ ndrain' = IF counted /\ reached THEN ndrain + 1 ELSE ndrain
            /\ IF done
               THEN /\ uucp_held' = FALSE
                    /\ uucp_misuse' = (uucp_misuse \/ RmLockMisuse)
                    /\ os_fd_open' = FALSE
                    /\ ll_state' = "closed"
               ELSE UNCHANGED <<uucp_held, uucp_misuse, os_fd_open, ll_state>>
    /\ UNCHANGED <<lock, write_only, fd, timer_stopped, deferred_op_pending,
                   termio_q, break_set>>
    /\ UNCHANGED <<pollvars, os_termios, os_mctl, os_break, signals, outq,
                   rpc, rcur, timer, stop_pending, thvars>>
    /\ UNCHANGED <<last, log, nsubmits, naccepted, nopens, crashed, stale_close,
                   poll_levels, poll_mask>>

\* A drain poll of the queue and poller specifications.
CloseCheck == DrainCheck(FALSE)

\* A drain poll that is counted.
DrainPoll == DrainCheck(TRUE)

\* The fd layer writes to the device while the endpoint is open: bytes wait
\* in the OS output queue that TIOCOUTQ of line 776 reports.
WriteOutput ==
    /\ ~crashed
    /\ UNCHANGED drainvars
    /\ ll_state = "open"
    /\ outq = 0
    /\ outq' = 1
    /\ UNCHANGED <<epvars, pollvars, os_termios, os_mctl, os_break, signals,
                   os_fd_open, uucp_held, fwvars, thvars, histvars>>

\* The remote end takes the bytes that were waiting.
OutputDrains ==
    /\ ~crashed
    /\ UNCHANGED drainvars
    /\ outq # 0
    /\ outq' = 0
    /\ UNCHANGED <<epvars, pollvars, os_termios, os_mctl, os_break, signals,
                   os_fd_open, uucp_held, fwvars, thvars, histvars>>

\* ------------------------------------- termios_timeout, sterm_modemstate
\* Lines 578-585: the levels of CD, RI, DSR and CTS in the top nibble of the
\* modem-state word.
Levels(val) ==
    (IF Has(val, TIOCM_CD) THEN {7} ELSE {})
    \cup (IF Has(val, TIOCM_RI) THEN {6} ELSE {})
    \cup (IF Has(val, TIOCM_DSR) THEN {5} ELSE {})
    \cup (IF Has(val, TIOCM_CTS) THEN {4} ELSE {})

\* Bitwise ^ and >> 4 on words held as sets of bit positions.
Xor(a, b) == (a \ b) \cup (b \ a)
Shr4(w) == { b - 4 : b \in { x \in w : x >= 4 } }

\* The bottom nibble, 0xf.
ChangeBits == 0..3

\* Fault: the word of the tick before is kept.
StaleWord(modemstate, lastms) == lastms

\* Line 589: the word with the bits for things that changed.
WithChanges(modemstate, lastms) == modemstate \cup Shr4(Xor(modemstate, lastms))

\* Fault: the mask is not applied.
Unmasked(modemstate, mask) == modemstate

\* Lines 590-591: what the tick keeps of the word under the mask.
Masked(modemstate, mask) == modemstate \cap mask

\* Line 600: whether the tick reports the word.
ShouldSend(force_send, modemstate) ==
    force_send \/ (modemstate \cap ChangeBits) # {}

\* Line 594: the owner of the lock once the tick has called sterm_unlock,
\* before gensio_cb.
UnlockForEvent == "none"

\* The framework runs an expired timer's handler on a thread of its own that
\* is free; the threads are interchangeable, so it is the first free one.
FreeThread == IF tpc["k1"] = "idle" THEN "k1" ELSE "k2"

\* Fault: the guard is not looked at.
TickNeverReturnsEarly(handling) == FALSE

\* Lines 568-571: a tick that finds the guard set returns at once.
TickReturnsEarly(handling) == handling

\* Lines 567-573: the timer expires and the framework runs termios_timeout on
\* thread k; it returns at once when a tick is already handling the modem state.
TickBegin(k) ==
    /\ ~crashed
    /\ UNCHANGED drainvars
    /\ timer = "armed"
    /\ k = FreeThread
    /\ tpc[k] = "idle"
    /\ lock = "none"
    /\ timer' = "idle"
    /\ IF TickReturnsEarly(handling_modemstate)
       THEN UNCHANGED <<handling_modemstate, tpc>>
       ELSE /\ handling_modemstate' = TRUE
            /\ tpc' = [tpc EXCEPT ![k] = "sample"]
    /\ UNCHANGED <<epvars, last_modemstate, modemstate_mask,
                   sent_first_modemstate, osvars, rpc, rcur, stop_pending,
                   ll_state, spc, tms, tforce, histvars>>

\* Lines 575-585: ioctl(fd, TIOCMGET); the tick returns when it fails, which
\* it does on a descriptor that has been closed.
TickSample(k, ok) ==
    /\ ~crashed
    /\ UNCHANGED drainvars
    /\ tpc[k] = "sample"
    /\ IF ok /\ os_fd_open
       THEN /\ tms' = [tms EXCEPT ![k] = Levels(TIOCMGET)]
            /\ tpc' = [tpc EXCEPT ![k] = "compute"]
       ELSE /\ tpc' = [tpc EXCEPT ![k] = "idle"]
            /\ UNCHANGED tms
    /\ UNCHANGED <<epvars, pollvars, osvars, fwvars, spc, tforce, histvars>>

\* Fault: every report is forced.
ForceSendAlways(sent_first) == TRUE

\* Line 592: the report is forced while none was made since the open.
ForceSend(sent_first) == ~sent_first

\* Lines 587-605: under the lock the word is computed and recorded; the lock
\* is released and, when the word is to be reported, gensio_cb is entered with
\* GENSIO_EVENT_SER_MODEMSTATE and the word.
TickCompute(k) ==
    /\ ~crashed
    /\ UNCHANGED drainvars
    /\ tpc[k] = "compute"
    /\ lock = "none"
    /\ LET modemstate == WithChanges(tms[k], last_modemstate)
           kept == Masked(modemstate, modemstate_mask)
           word == Masked(modemstate, kept)
           force_send == ForceSend(sent_first_modemstate)
       IN /\ last_modemstate' = kept
          /\ tms' = [tms EXCEPT ![k] = word]
          /\ tforce' = [tforce EXCEPT ![k] = force_send]
          /\ sent_first_modemstate' = TRUE
          /\ poll_levels' = tms[k]
          /\ poll_mask' = modemstate_mask
          /\ tpc' = [tpc EXCEPT ![k] = IF ShouldSend(force_send, word)
                                       THEN "incb" ELSE "rearm"]
    /\ lock' = UnlockForEvent
    /\ UNCHANGED <<open, write_only, fd, close_timeouts_left, timer_stopped,
                   deferred_op_pending, termio_q, break_set, modemstate_mask,
                   handling_modemstate, osvars, fwvars, spc>>
    /\ UNCHANGED <<last, log, nsubmits, naccepted, nopens, crashed,
                   uucp_misuse, stale_close>>

\* Lines 604-606: the consumer's handler of the event returns.
TickDispatch(k) ==
    /\ ~crashed
    /\ UNCHANGED drainvars
    /\ tpc[k] = "incb"
    /\ lock # k
    /\ tpc' = [tpc EXCEPT ![k] = "rearm"]
    /\ UNCHANGED <<epvars, pollvars, osvars, fwvars, spc, tms, tforce,
                   histvars>>

\* Line 608: modemstate_mask is read without the lock.
TickRearm(k) ==
    /\ ~crashed
    /\ UNCHANGED drainvars
    /\ tpc[k] = "rearm"
    /\ tpc' = [tpc EXCEPT ![k] = IF modemstate_mask # {} THEN "start"
                                 ELSE "end"]
    /\ UNCHANGED <<epvars, pollvars, osvars, fwvars, spc, tms, tforce,
                   histvars>>

\* Lines 609-611: start_timer, one second ahead, on the mask read at line 608.
TickStartTimer(k) ==
    /\ ~crashed
    /\ UNCHANGED drainvars
    /\ tpc[k] = "start"
    /\ timer' = "armed"
    /\ tpc' = [tpc EXCEPT ![k] = "end"]
    /\ UNCHANGED <<epvars, pollvars, osvars, rpc, rcur, stop_pending,
                   ll_state, spc, tms, tforce, histvars>>

\* Lines 614-617: the guard is cleared under the lock and the tick returns,
\* its locals gone.
TickEnd(k) ==
    /\ ~crashed
    /\ UNCHANGED drainvars
    /\ tpc[k] = "end"
    /\ lock = "none"
    /\ handling_modemstate' = FALSE
    /\ tpc' = [tpc EXCEPT ![k] = "idle"]
    /\ tms' = [tms EXCEPT ![k] = {}]
    /\ tforce' = [tforce EXCEPT ![k] = FALSE]
    /\ UNCHANGED <<epvars, last_modemstate, modemstate_mask,
                   sent_first_modemstate, osvars, fwvars, spc, histvars>>

\* The masks a consumer subscribes with: none, the CTS level, the CTS level
\* with its change bit, the CD change bit without the CD level, everything.
Masks == {{}, {4}, {0, 4}, {3}, ByteBits}

\* Lines 624-626: sterm_modemstate(sio, val) stores the mask under the lock.
SubscribeSet(val) ==
    /\ ~crashed
    /\ UNCHANGED drainvars
    /\ spc = "idle"
    /\ lock = "none"
    /\ ~write_only
    /\ modemstate_mask' = val
    /\ spc' = "timer"
    /\ UNCHANGED <<epvars, last_modemstate, handling_modemstate,
                   sent_first_modemstate, osvars, fwvars, tpc, tms, tforce,
                   histvars>>

\* Lines 627-634: it reads the mask again without the lock and starts or stops
\* the timer.
SubscribeTimer ==
    /\ ~crashed
    /\ UNCHANGED drainvars
    /\ spc = "timer"
    /\ timer' = IF modemstate_mask # {} THEN "armed" ELSE "idle"
    /\ spc' = "idle"
    /\ UNCHANGED <<epvars, pollvars, osvars, rpc, rcur, stop_pending,
                   ll_state, tpc, tms, tforce, histvars>>

\* The modem lines the device samples; CTS or CD changes level.
SignalLines == {TIOCM_CTS, TIOCM_CD}

SignalChange(line) ==
    /\ ~crashed
    /\ UNCHANGED drainvars
    /\ signals' = Xor(signals, line)
    /\ UNCHANGED <<epvars, pollvars, os_termios, os_mctl, os_break,
                   os_fd_open, outq, uucp_held, fwvars, thvars, histvars>>

\* ------------------------------------------------------- specifications
\* The operation queue: callers on several threads and inside completions, the
\* deferred runner, the fd layer opening and closing the endpoint.
Next ==
    \/ SubmitQueued
    \/ RunnerStart
    \/ RunnerProcess
    \/ RunnerInvoke
    \/ CallbackReturn
    \/ OpenAttempt
    \/ sterm_timer_stopped
    \/ CloseStart
    \/ CloseCheck

Spec == Init /\ [][Next]_vars

\* The set and get semantics: every request, with failing OS calls.
NextSet ==
    \/ SubmitAny
    \/ RunnerStart
    \/ RunnerProcess
    \/ RunnerInvoke
    \/ CallbackReturn
    \/ OpenSucceeds
    \/ sterm_timer_stopped
    \/ CloseStart
    \/ CloseCheck

SpecSet == Init /\ [][NextSet]_vars

\* The modem-state poller: timer ticks on two threads, subscribers, the modem
\* lines changing, the fd layer opening and closing the endpoint.
NextPoll ==
    \/ \E k \in Tickers : TickBegin(k)
    \/ \E k \in Tickers, ok \in BOOLEAN : TickSample(k, ok)
    \/ \E k \in Tickers : TickCompute(k)
    \/ \E k \in Tickers : TickDispatch(k)
    \/ \E k \in Tickers : TickRearm(k)
    \/ \E k \in Tickers : TickStartTimer(k)
    \/ \E k \in Tickers : TickEnd(k)
    \/ \E val \in Masks : SubscribeSet(val)
    \/ SubscribeTimer
    \/ \E line \in SignalLines : SignalChange(line)
    \/ OpenSucceeds
    \/ sterm_timer_stopped
    \/ CloseStart
    \/ CloseCheck

SpecPoll == Init /\ [][NextPoll]_vars

\* The callbacks: the deferred runner calling completions and a timer tick
\* dispatching events on one open endpoint.
NextCb ==
    \/ SubmitQueued
    \/ RunnerStart
    \/ RunnerProcess
    \/ RunnerInvoke
    \/ CallbackReturn
    \/ OpenSucceeds
    \/ TickBegin("k1")
    \/ \E ok \in BOOLEAN : TickSample("k1", ok)
    \/ TickCompute("k1")
    \/ TickDispatch("k1")
    \/ TickRearm("k1")
    \/ TickStartTimer("k1")
    \/ TickEnd("k1")

SpecCb == Init /\ [][NextCb]_vars

\* The termios parameters set and read on one open endpoint.
NextParm ==
    \/ SubmitParm
    \/ RunnerStart
    \/ RunnerProcess
    \/ RunnerInvoke
    \/ CallbackReturn
    \/ OpenSucceeds

SpecParm == Init /\ [][NextParm]_vars

\* The close: the fd layer opening the endpoint, writing to it, requesting
\* the close and polling the drain, the remote end taking the output or not,
\* the framework reporting the timer stopped.
NextDrain ==
    \/ OpenSucceeds
    \/ WriteOutput
    \/ OutputDrains
    \/ CloseStart
    \/ DrainPoll
    \/ sterm_timer_stopped

SpecDrain == Init /\ [][NextDrain]_vars

\* The first report: one timer thread whose TIOCMGET succeeds on every open
\* descriptor, the modem lines changing, the fd layer opening and closing the
\* endpoint.
NextTick ==
    \/ TickBegin("k1")
    \/ TickSample("k1", TRUE)
    \/ TickCompute("k1")
    \/ TickDispatch("k1")
    \/ TickRearm("k1")
    \/ TickStartTimer("k1")
    \/ TickEnd("k1")
    \/ \E line \in SignalLines : SignalChange(line)
    \/ OpenSucceeds
    \/ sterm_timer_stopped
    \/ CloseStart
    \/ CloseCheck

\* The timer that is armed fires and a tick that began runs to its end.
SpecTick ==
    /\ Init
    /\ [][NextTick]_vars
    /\ WF_vars(TickBegin("k1"))
    /\ WF_vars(TickSample("k1", TRUE))
    /\ WF_vars(TickCompute("k1"))
    /\ WF_vars(TickDispatch("k1"))
    /\ WF_vars(TickRearm("k1"))
    /\ WF_vars(TickStartTimer("k1"))
    /\ WF_vars(TickEnd("k1"))

\* The operation queue under a scheduler that runs the deferred runner it was
\* asked to run and lets a completion return.
SpecFair ==
    /\ Spec
    /\ WF_vars(RunnerStart)
    /\ WF_vars(RunnerProcess)
    /\ WF_vars(RunnerInvoke)
    /\ WF_vars(CallbackReturn)

\* ------------------------------------------------------------- properties
InLog(i) == \E j \in 1..Len(log) : log[j] = i

\* A step that is a call of termios_set_get returning to its caller.
SubmitReturns == nsubmits' = nsubmits + 1 /\ ~crashed'

\* C1: every call of termios_set_get that returned 0 with a completion has that
\* completion invoked exactly once: once its entry is accepted the completion
\* is eventually invoked, given that the runner gets to run, and no entry's
\* completion is ever invoked twice.
C1_CompletedExactlyOnce ==
    /\ \A i \in 1..MaxSubmits : (naccepted >= i) ~> InLog(i)
    /\ [](\A i, j \in 1..Len(log) : log[i] = log[j] => i = j)

\* C1 witness: every accepted entry has completed, the last of them submitted
\* from inside a completion, while a close is draining.
C1_Witness ==
    /\ naccepted >= 2
    /\ \A i \in 1..naccepted : InLog(i)
    /\ last.t = "runner"
    /\ last.ret = 0
    /\ ll_state = "closing"

\* C2: completions are invoked in the order in which their entries were
\* accepted: the ids of the completions invoked so far are increasing.
C2_Fifo == \A i, j \in 1..Len(log) : i < j => log[i] < log[j]

\* C2 witness: three entries completed, the last call having been accepted
\* from inside a completion.
C2_Witness ==
    /\ Len(log) >= 3
    /\ last.t = "runner"
    /\ last.ret = 0
    /\ last.req.done

\* C3: the thread that enters a callback does not hold the endpoint lock:
\* neither the runner inside a completion nor a tick inside the handler of a
\* SER_MODEMSTATE event.
C3_CallbacksUnlocked ==
    /\ rpc = "incb" => lock # "runner"
    /\ \A k \in Tickers : tpc[k] = "incb" => lock # k

\* C3 witness: a completion and a modem-state event are both being handled, and
\* the completion has called termios_set_get again with success.
C3_Witness ==
    /\ rpc = "incb"
    /\ tpc["k1"] = "incb"
    /\ last.t = "runner"
    /\ last.ret = 0

\* C4: the endpoint holds the UUCP lock exactly while it is open or draining,
\* never takes it while holding it and never removes it while not holding it.
C4_UucpPaired ==
    /\ ~uucp_misuse
    /\ ll_state \in {"open", "closing"} => uucp_held
    /\ ll_state = "closed" => ~uucp_held

\* C4 witness: after two open attempts, one of which succeeded and has been
\* closed, the endpoint is closed and the lock released.
C4_Witness ==
    /\ nopens >= 2
    /\ ll_state = "closed"
    /\ close_timeouts_left = 200
    /\ ~uucp_held

\* C5 as stated: a call on an endpoint that is not open (and not write-only)
\* returns EBUSY, has allocated nothing, and leaves the queue, break_set and
\* the device alone.
C5_BusyWithoutAllocating ==
    [][(SubmitReturns /\ ~open /\ ~write_only) =>
         /\ last'.ret = EBUSY
         /\ ~last'.alloc
         /\ UNCHANGED <<termio_q, break_set, os_termios, os_mctl, os_break>>]_vars

\* C5 amended: a call on an endpoint that is not open changes nothing and
\* schedules nothing; it returns ENOTSUP on a write-only endpoint, and
\* otherwise allocates an entry exactly when a completion is given, returning
\* ENOMEM or, having freed the entry, EBUSY.
C5_BusyAfterAllocating ==
    [][(SubmitReturns /\ ~open) =>
         /\ UNCHANGED <<termio_q, break_set, os_termios, os_mctl, os_break,
                        rpc, deferred_op_pending, naccepted>>
         /\ write_only => (last'.ret = ENOTSUP /\ ~last'.alloc)
         /\ ~write_only =>
              /\ last'.alloc = last'.req.done
              /\ last'.ret \in {EBUSY, ENOMEM}
              /\ last'.ret = ENOMEM => last'.req.done]_vars

\* C5 witness: a call on an endpoint that was never opened returned ENOMEM.
C5_Witness ==
    /\ nopens = 0
    /\ ~write_only
    /\ last.ret = ENOMEM

\* C6: when the set part of a call fails, the call returns an error, the queue
\* holds what it held, the runner is not newly scheduled and break_set is
\* unchanged.
C6_FailedSetChangesNothing ==
    [][(SubmitReturns /\ last'.fail # "none") =>
         /\ last'.ret # 0
         /\ UNCHANGED <<termio_q, rpc, deferred_op_pending, break_set>>]_vars

\* C7: a TERMIO set whose write-back with TCSANOW failed does not return 0.
C7_WriteBackFailureReturned ==
    (last.req.op = TERMIO_OP_TERMIO /\ last.fail = "tcsetattr") => last.ret # 0

\* The value a get of fn reads from what the device holds.
DeviceValue(fn) ==
    IF fn = "stopbits" THEN (IF Has(os_termios.c_cflag, CSTOPB) THEN 2 ELSE 1)
    ELSE IF fn = "dtr"
    THEN (IF Has(os_mctl, TIOCM_DTR) THEN SERGENSIO_DTR_ON
          ELSE SERGENSIO_DTR_OFF)
    ELSE (IF Has(os_mctl, TIOCM_RTS) THEN SERGENSIO_RTS_ON
          ELSE SERGENSIO_RTS_OFF)

\* C8: the value the runner hands to the completion of a TERMIO or MODEM_CTL
\* entry is what the device holds when the runner processes the entry, after
\* every set made before.
C8_CompletionReadsDevice ==
    [][(rpc = "process" /\ rpc' = "call" /\ rcur'.err = 0
        /\ rcur'.entry.op \in {TERMIO_OP_TERMIO, TERMIO_OP_MCTL}) =>
         rcur'.val = DeviceValue(rcur'.entry.fn)]_vars

\* C8 witness: the completion of a stop-bits entry is running with the value
\* 2, which a set wrote to the device.
C8_Witness ==
    /\ rpc = "incb"
    /\ rcur.entry.fn = "stopbits"
    /\ rcur.err = 0
    /\ rcur.val = 2

\* C9: a DTR (RTS) set to OFF that returns 0 takes TIOCM_DTR (TIOCM_RTS) out of
\* the modem-control word and leaves its other bits as they were.
C9_OffClearsOnlyItsBit ==
    [][(SubmitReturns /\ last'.ret = 0 /\ last'.req.op = TERMIO_OP_MCTL
        /\ last'.req.val = SERGENSIO_DTR_OFF) =>
         os_mctl' = os_mctl \ (IF last'.req.fn = "dtr" THEN TIOCM_DTR
                               ELSE TIOCM_RTS)]_vars

\* Under the mask m, in force at this poll and at the one before, a poll after
\* the first report dispatches an event exactly when the CTS level it sampled
\* differs from the level sampled by the poll before (so not for CD alone).
EventPerCtsEdge(m) ==
    \A k \in Tickers :
      (tpc[k] = "compute" /\ tpc'[k] # "compute" /\ sent_first_modemstate
       /\ modemstate_mask = m /\ poll_mask = m) =>
        ((tpc'[k] = "incb") <=> ((4 \in tms[k]) # (4 \in poll_levels)))

\* C10 as stated: with the mask 0x10 every CTS change between two polls
\* produces one event and a CD change alone produces none.
C10_EventPerCtsEdge == [][EventPerCtsEdge({4})]_vars

\* C10 amended: with the mask 0x11 (the CTS level and the CTS change bit)
\* every CTS change between two polls produces one event and a CD change alone
\* produces none.
C10_EventPerCtsEdgeWithChangeBit == [][EventPerCtsEdge({0, 4})]_vars

\* C10 witness: under the mask 0x11 an event that was not forced is being
\* handled.
C10_Witness ==
    \E k \in Tickers :
      /\ tpc[k] = "incb"
      /\ ~tforce[k]
      /\ modemstate_mask = {0, 4}
      /\ poll_mask = {0, 4}

\* C11: after every successful open of an endpoint that is not write-only, a
\* re-open included, a SER_MODEMSTATE event is dispatched (the forced first
\* report) unless the endpoint is closed first, the timer firing when it is armed.
FreshlyOpened == ll_state = "open" /\ ~write_only /\ ~sent_first_modemstate

C11_FirstReportAfterOpen ==
    FreshlyOpened ~> ((\E k \in Tickers : tpc[k] = "incb") \/ ll_state # "open")

\* C12: a tick whose TIOCMGET failed has dispatched nothing and has not armed
\* the timer, and the tick that fires after the next subscribe with a non-zero
\* mask samples the modem lines again: a timer that fires on the open endpoint
\* while no tick is running starts a tick that goes on to its sample.
NoTickRunning == \A k \in Tickers : tpc[k] = "idle"

TimerFires ==
    /\ timer = "armed"
    /\ timer' = "idle"
    /\ UNCHANGED <<spc, ll_state, stop_pending, modemstate_mask>>

C12_TickAfterFailureSamples ==
    [][(TimerFires /\ NoTickRunning /\ ll_state = "open" /\ spc = "idle"
        /\ modemstate_mask # {})
       => \E k \in Tickers : tpc'[k] = "sample"]_vars

\* C13: once subscribe(0) has returned and no subscribe with a non-zero mask
\* has followed, a tick that was running during it does not re-arm the timer:
\* when that tick has returned the poller timer is not scheduled.
C13_NoRearmAfterUnsubscribe ==
    (modemstate_mask = {} /\ spc = "idle" /\ NoTickRunning) => timer # "armed"

\* C14: modem-state dispatches are serialized: at most one tick is between
\* setting and clearing handling_modemstate, the guard is set all the while,
\* and the word a tick is dispatching is the last one stored in
\* last_modemstate, also when subscribe arms the timer during a dispatch.
TicksRunning == {k \in Tickers : tpc[k] # "idle"}

C14_TicksSerialized ==
    /\ Cardinality(TicksRunning) <= 1
    /\ \A k \in TicksRunning : handling_modemstate
    /\ \A k \in Tickers : tpc[k] = "incb" => tms[k] = last_modemstate

\* A tick is dispatching and a subscribe has armed the timer meanwhile.
C14_Witness ==
    /\ \E k \in Tickers : tpc[k] = "incb"
    /\ timer = "armed"
    /\ spc = "idle"
    /\ modemstate_mask = {0, 4}

\* C15 as stated: after the first report of an open session last_modemstate is
\* the word most recently delivered, so a tick that samples and dispatches
\* nothing leaves last_modemstate as it was.
C15_LastIsLastDelivered ==
    [][\A k \in Tickers :
         (sent_first_modemstate /\ tpc[k] = "compute" /\ tpc'[k] = "rearm")
         => last_modemstate' = last_modemstate]_vars

\* C15 amended: last_modemstate is the word of the most recent tick that
\* sampled, dispatched or not: its level bits are the levels that tick sampled
\* under the mask it found, nothing outside that mask is in it, and a word
\* being dispatched equals it.
LevelBits == 4..7

C15_LastIsLastComputed ==
    /\ last_modemstate \cap LevelBits = poll_levels \cap poll_mask
    /\ last_modemstate \subseteq poll_mask
    /\ \A k \in Tickers : tpc[k] = "incb" => last_modemstate = tms[k]

\* A tick after the first report has sampled CTS high and dispatches nothing.
C15_Witness ==
    /\ \E k \in Tickers :
         tpc[k] = "rearm" /\ ~tforce[k] /\ tms[k] \cap ChangeBits = {}
    /\ sent_first_modemstate
    /\ last_modemstate = {4}
    /\ poll_mask = ByteBits

\* C16: under every mask a change bit is in a dispatched word only if its
\* signal was sampled at a level other than its level at the previous report:
\* when the previous tick reported (its word, kept in last_modemstate, carried
\* a change bit) and a signal is sampled at the level that tick sampled, the
\* signal's change bit is not in the word of this tick.
PreviousTickReported == last_modemstate \cap ChangeBits # {}

C16_ChangeBitOnlyOnChange ==
    [][\A k \in Tickers :
         (tpc[k] = "compute" /\ tpc'[k] # "compute" /\ PreviousTickReported)
         => \A b \in LevelBits :
              ((b \in tms[k]) = (b \in poll_levels)) => (b - 4) \notin tms'[k]]_vars

\* C17: in an open session with subscribe(0) followed by subscribe(M), M # 0,
\* one event is dispatched on account of the force-send rule and subscribing
\* again never brings a second: a forced dispatch happens only while
\* sent_first_modemstate is false and sets it, it is set by nothing else, and
\* only an open clears it.
ForcedDispatch(k) == tpc[k] = "compute" /\ tpc'[k] = "incb" /\ tforce'[k]

C18_CloseWithin200Polls == ll_state = "closing" => npolls < 200

\* C18 amended: the 200 are counted over the polls made with the queue empty
\* and the timer reported stopped: each of them that leaves the close pending
\* takes one from close_timeouts_left, and the 200th of them completes it.
C18_CloseWithin200DrainPolls ==
    ll_state = "closing" =>
        (ndrain < 200 /\ ndrain + close_timeouts_left = 200)

\* The budget ran out: the 200th such poll completed the close with output
\* still waiting, after polls that did not count.
C18_Witness ==
    /\ ll_state = "closed"
    /\ ndrain = 200
    /\ npolls > 200
    /\ outq # 0
    /\ close_timeouts_left = 0
    /\ ~uucp_held

\* C19: the close drain does not report completion while an accepted queued
\* operation has not had its completion invoked: at the drain poll that
\* completes the close every accepted entry is in the log of completions.
C19_CloseAfterCompletions ==
    [][(ll_state = "closing" /\ ll_state' = "closed")
       => \A i \in 1..naccepted : InLog(i)]_vars

\* C20: fd differs from none only while the endpoint is open or draining:
\* when a close drain has completed or an open attempt has failed fd is none
\* again, and a failed open closes no descriptor that the endpoint does not
\* own any more.
C20_FdOnlyWhileOpenOrDraining ==
    /\ ll_state = "closed" => fd = 0 - 1
    /\ ~stale_close

\* What a get of the termios parameter fn reads from what the device holds.
TermiosValue(fn, termios) == getset(fn, termios, {}, 0).ival

RoundTripParms == {"datasize", "parity", "stopbits", "flowcontrol"}

\* C21: for every value x of parity, stop bits, data size and flow control, a
\* set(x) that returned 0 is followed by a get of the same parameter that
\* delivers x, whatever was set before: when the set returns, a get reads x
\* from the device, and the runner delivers what a get reads from the device.
C21_SetThenGetRoundTrip ==
    [][/\ (SubmitReturns /\ last'.ret = 0 /\ last'.req.val # 0
           /\ last'.req.fn \in RoundTripParms)
          => TermiosValue(last'.req.fn, os_termios') = last'.req.val
       /\ (rpc = "process" /\ rpc' = "call" /\ rcur'.err = 0
           /\ rcur'.entry.fn \in RoundTripParms)
          => rcur'.val = TermiosValue(rcur'.entry.fn, os_termios)]_vars

\* The same for the sets whose write-back to the device did not fail.
RoundTripWhenWritten ==
    [][(SubmitReturns /\ last'.ret = 0 /\ last'.req.val # 0
        /\ last'.fail = "none" /\ last'.req.fn \in RoundTripParms)
       => TermiosValue(last'.req.fn, os_termios') = last'.req.val]_vars

\* C22: a queued BREAK get delivers ON exactly when the most recent
\* successful BREAK set was ON: a BREAK set that returns 0 leaves break_set
\* saying whether its value was ON, nothing else changes break_set (no failed
\* set, no set of another value), a value other than ON or OFF returns
\* invalid-argument, and the runner delivers ON for break_set and OFF otherwise.
BreakSetReturns == SubmitReturns /\ last'.req.op = TERMIO_OP_BRK /\ last'.req.val # 0

C22_BreakLatch ==
    [][/\ (BreakSetReturns /\ last'.ret = 0)
          => break_set' = (last'.req.val = SERGENSIO_BREAK_ON)
       /\ break_set' # break_set => (BreakSetReturns /\ last'.ret = 0)
       /\ (BreakSetReturns /\ open /\ ~write_only /\ last'.ret # ENOMEM
           /\ last'.req.val \notin {SERGENSIO_BREAK_ON, SERGENSIO_BREAK_OFF})
          => last'.ret = EINVAL
       /\ (rpc = "process" /\ rpc' = "call"
           /\ rcur'.entry.op = TERMIO_OP_BRK)
          => (rcur'.err = 0
              /\ rcur'.val = IF break_set THEN SERGENSIO_BREAK_ON
                             ELSE SERGENSIO_BREAK_OFF)]_vars

\* After a BREAK set of ON and an invalid one, the completion of the first is
\* running with ON.
C22_Witness ==
    /\ rpc = "incb"
    /\ rcur.entry.op = TERMIO_OP_BRK
    /\ rcur.val = SERGENSIO_BREAK_ON
    /\ last.req.op = TERMIO_OP_BRK
    /\ last.req.val = 42
    /\ last.ret = EINVAL
    /\ break_set

\* C23: whenever the endpoint is open, break_set says whether BREAK is
\* asserted on the line, so that after every open, a re-open included, a
\* queued BREAK get delivers OFF until a BREAK set of ON succeeds.
C23_BreakSetIsLineState == ll_state = "open" => break_set = os_break

\* C24: a MODEM_CTL set of a non-zero value submitted without completion on
\* an open endpoint returns like the same set with a completion: the call
\* returns, and when it returns 0 the modem-control word is what the accessor
\* made of the word read, no queue entry being used.
C24_ModemCtlSetWithoutCompletion ==
    [][nsubmits' = nsubmits + 1 =>
         /\ ~crashed'
         /\ (last'.req.op = TERMIO_OP_MCTL /\ ~last'.req.done
             /\ last'.req.val # 0 /\ last'.ret = 0)
            => /\ termio_q' = termio_q
               /\ os_mctl' = getset(last'.req.fn, os_termios, TIOCMGET,
                                    last'.req.val).mctl \cap MctlOutputs]_vars

\* C25: whenever the lock is free a non-empty queue has deferred_op_pending
\* set, which is set exactly while a runner is scheduled or executing; the
\* runner is scheduled only when it was not and deferred_op_pending was
\* false, so one runner is outstanding at most; and deferred_op_pending is
\* cleared only on an empty queue, so the runner that is inside a completion
\* processes what that completion appends.
C25_OneRunnerOutstanding ==
    /\ [](/\ (lock = "none" /\ termio_q # <<>>) => deferred_op_pending
          /\ deferred_op_pending <=> rpc # "idle")
    /\ [][/\ (rpc' = "scheduled" /\ rpc # "scheduled")
             => (rpc = "idle" /\ ~deferred_op_pending)
          /\ (deferred_op_pending /\ ~deferred_op_pending')
             => (termio_q = <<>> /\ termio_q' = <<>> /\ rpc = "process")]_vars

\* The completion of an entry has appended another while the runner is
\* inside it and the queue was empty.
C25_Witness ==
    /\ rpc = "incb"
    /\ Len(termio_q) = 1
    /\ last.t = "runner"
    /\ last.ret = 0
    /\ deferred_op_pending
    /\ lock = "none"

\* C26: once the close drain has reported completion the poller is quiescent
\* until the next open: the timer is not armed and no tick is about to sample
\* the endpoint's fd.
C26_PollerQuietAfterClose ==
    (ll_state = "closed" /\ nopens > 0)
    => (timer # "armed" /\ \A k \in Tickers : tpc[k] # "sample")

\* The bits of c_cflag that hold the baud rate (CBAUD), and those the address
\* formatter reads for the parameters that are not flow control.
CBAUD == {0, 1, 2, 3, 12}

OtherCflags ==
    CBAUD \cup CSIZE \cup PARENB \cup PARODD \cup CMSPAR \cup CSTOPB
    \cup CLOCAL \cup HUPCL

\* C27: a flowcontrol or iflowcontrol set changes only the flow-control flags
\* of the device's termios: the baud rate, data size, parity, stop bits,
\* CLOCAL and HUPCL are after the set what they were before it.
C27_FlowControlFrame ==
    [][(SubmitReturns /\ last'.ret = 0 /\ last'.req.val # 0
        /\ last'.req.fn \in {"flowcontrol", "iflowcontrol"})
       => /\ os_termios'.c_cflag \cap OtherCflags
               = os_termios.c_cflag \cap OtherCflags
          /\ os_termios'.c_iflag \ (IXON \cup IXOFF)
               = os_termios.c_iflag \ (IXON \cup IXOFF)]_vars

====
